---- MODULE Spec2Model ----
(***************************************************************************)
(* A model of cairo_native's ahead-of-time executor                        *)
(* (src/src/executor/aot.rs) and of the lowering of the `jump` libfunc     *)
(* (src/src/libfuncs/unconditional_jump.rs).                               *)
(*                                                                         *)
(* Options are sets with at most one element: None is {} and Some(x) is    *)
(* {x}.  A Rust panic (an `unwrap()` on None / Err) is the outcome         *)
(* "panic"; a returned Err(e) is the outcome "err" with error e.           *)
(***************************************************************************)
EXTENDS Integers, Sequences, FiniteSets, TLC

\* ------------------------------------------------------------------ bounds

\* Function ids are 1..MaxFn.
MaxFn == 2
\* The longest calldata (sequence of felts) a caller passes.
MaxLen == 2
\* How many operations the entry block may hold before the jump is lowered.
MaxOps == 2

FunctionIds == 1..MaxFn
Felts == {0, 1}

None == {}
Some(x) == {x}
Unwrap(o) == CHOOSE x \in o : TRUE

\* ------------------------------------------------------------------ values

\* JitValue::Felt252
Felt252(n) == [tag |-> "Felt252", felt |-> n]
\* JitValue::Array
Array(elems) == [tag |-> "Array", elems |-> elems]
\* JitValue::Struct { fields, debug_name }
Struct(fields, debug_name) ==
  [tag |-> "Struct", fields |-> fields, debug_name |-> debug_name]

\* The flat sequences of felts a contract caller passes.
FeltSeqs == UNION {[1..n -> Felts] : n \in 0..MaxLen}

\* The argument lists the callers of the two JitValue entry points pass.
JitArgs ==
  { <<>>,
    <<Felt252(1)>>,
    <<Array(<<Felt252(0), Felt252(1)>>)>>,
    <<Struct(<<Array(<<Felt252(1), Felt252(0)>>)>>, None)>> }

\* The syscall handlers a caller may supply.
Handlers == {"handler"}

\* The explicit gas a caller may pass.
GasOptions == {None, Some(10)}

\* ------------------------------------------------------------ collaborators

\* utils::generate_function_name: the canonical mangled name of an id.
generate_function_name(function_id) == <<"f", function_id>>

\* The prefix of the C-interface wrapper of every compiled function.
Prefix == <<"_mlir_ciface_">>

\* The shared library compiled from the functions `fns`: each function is
\* exported under its mangled name and, through its C-interface wrapper,
\* under the prefixed name.  Addresses are never null.
LibraryOf(fns) ==
  [name \in {generate_function_name(f) : f \in fns}
            \cup {Prefix \o generate_function_name(f) : f \in fns}
     |-> IF name[1] = "f" THEN 2 * name[2] + 1 ELSE 2 * name[3]]

\* FunctionSignature of a function of the program.
SignatureOf(f) == [param_types |-> <<f>>, ret_types |-> <<f>>]

\* ProgramRegistry holding the functions `fns`.
RegistryOf(fns) == [f \in fns |-> SignatureOf(f)]

\* GasMetadata with an initial-gas entry for the functions `fns`; the
\* metadata value of a function differs from every explicit gas value.
GasMetadataOf(fns) == [f \in fns |-> 100 * f]

\* The programs the executors are built from: the first k functions.
FunctionSets == {1..k : k \in 0..MaxFn}

\* GasMetadata::get_initial_available_gas: explicit gas takes precedence
\* over the metadata; with neither, the derivation fails.
get_initial_available_gas(gas_metadata, function_id, gas) ==
  IF gas /= None THEN [ok |-> TRUE, value |-> Unwrap(gas)]
  ELSE IF function_id \in DOMAIN gas_metadata
       THEN [ok |-> TRUE, value |-> gas_metadata[function_id]]
       ELSE [ok |-> FALSE, value |-> 0]

\* Whether the compiled function at `fn_ptr` makes a host call.
MakesHostCall(fn_ptr) == (fn_ptr \div 2) % 2 = 0

\* executor::invoke_dynamic, the invocation core: runs the native entry
\* point once.  The compiled function returns its arguments and uses one
\* unit of gas; a host call made with no handler is rejected and the
\* program fails, which is reported inside the result.
native_invoke_dynamic(registry, fn_ptr, signature, args, gas, syscall_handler) ==
  [return_values |-> args,
   remaining_gas |-> IF gas > 0 THEN gas - 1 ELSE 0,
   failure |-> MakesHostCall(fn_ptr) /\ syscall_handler = None]

\* The felts of a calldata-shaped value list, <<>> for any other shape.
FeltsOf(values) ==
  IF Len(values) = 1 /\ values[1].tag = "Struct"
     /\ Len(values[1].fields) = 1 /\ values[1].fields[1].tag = "Array"
  THEN [i \in 1..Len(values[1].fields[1].elems)
          |-> values[1].fields[1].elems[i].felt]
  ELSE <<>>

\* ContractExecutionResult::from_execution_result: the execution result
\* reshaped for contract callers; a failure of the program stays a flag.
from_execution_result(result) ==
  [ok |-> TRUE,
   value |-> [remaining_gas |-> result.remaining_gas,
              failure_flag |-> result.failure,
              return_values |-> FeltsOf(result.return_values)]]

\* -------------------------------------------------------------------- state

VARIABLES
  executor,   \* the AotNativeExecutor: its lifecycle state and three fields
  last,       \* the caller's latest operation on the executor and its outcome
  held,       \* the raw entry pointers the caller got from find_function_ptr
  entry,      \* the operations of the block the jump is lowered into
  helper,     \* the LibfuncHelper: the declared successor branches
  metadata,   \* the MetadataStorage of the compilation
  lowered     \* the lowering's call: its result and the state it started from

vars == <<executor, last, held, entry, helper, metadata, lowered>>
executorVars == <<executor, last, held>>
loweringVars == <<entry, helper, metadata, lowered>>

\* No executor (before construction, or after it is dropped and the
\* library unloaded).
NoExecutor(state) ==
  [state |-> state, library |-> LibraryOf({}), registry |-> RegistryOf({}),
   gas_metadata |-> GasMetadataOf({})]

\* What one operation did: the outcome ("ok", "err" or "panic"), the error
\* of an "err", the steps taken in order, what each step resolved, the
\* execution result of the native call and the value returned to the caller.
Outcome(outcome, error, steps, available_gas, fn_ptr, signature, native_args, exec, value) ==
  [outcome |-> outcome, error |-> error, steps |-> steps,
   available_gas |-> available_gas, fn_ptr |-> fn_ptr, signature |-> signature,
   native_args |-> native_args, exec |-> exec, value |-> value]

NoOutcome == Outcome("none", "", <<>>, None, None, None, None, None, None)

\* One operation of the caller: the entry point, its inputs, what it did.
Call(op, function_id, args, gas, syscall_handler, res) ==
  [op |-> op, function_id |-> function_id, args |-> args, gas |-> gas,
   syscall_handler |-> syscall_handler, res |-> res]

\* ---------------------------------------------------------------- executor

\* AotNativeExecutor::new
new(library, registry, gas_metadata) ==
  [state |-> "alive", library |-> library, registry |-> registry,
   gas_metadata |-> gas_metadata]

\* The name of the function itself, not of its C-interface wrapper.
function_symbol_unprefixed(function_id) == generate_function_name(function_id)

\* The symbol find_function_ptr looks up.
function_symbol(function_id) == Prefix \o generate_function_name(function_id)

\* AotNativeExecutor::find_function_ptr: the address of the symbol, or None
\* when `library.get(..).unwrap()` panics.
find_function_ptr(self, function_id) ==
  LET function_name == function_symbol(function_id)
  IN IF function_name \in DOMAIN self.library
     THEN Some(self.library[function_name])
     ELSE None

\* AotNativeExecutor::extract_signature: the signature, or None when
\* `registry.get_function(..).unwrap()` panics.
extract_signature(self, function_id) ==
  IF function_id \in DOMAIN self.registry
  THEN Some(self.registry[function_id])
  ELSE None

\* What `.map_err(|_| Error::InsufficientGasError)?` returns early.
InsufficientGas ==
  Outcome("err", "InsufficientGasError", <<"gas">>,
          None, None, None, None, None, None)

\* call_native with the signature looked up before the entry pointer.
call_native_signature_first(self, function_id, native_args, available_gas, syscall_handler) ==
  LET fn_ptr == find_function_ptr(self, function_id)
      signature == extract_signature(self, function_id)
      result == native_invoke_dynamic(self.registry, Unwrap(fn_ptr),
                  Unwrap(signature), native_args, available_gas,
                  syscall_handler)
  IN IF signature = None
     THEN Outcome("panic", "", <<"gas", "sig">>,
                  Some(available_gas), None, None, None, None, None)
     ELSE IF fn_ptr = None
     THEN Outcome("panic", "", <<"gas", "sig", "ptr">>,
                  Some(available_gas), None, signature, None, None, None)
     ELSE Outcome("ok", "", <<"gas", "sig", "ptr", "native">>,
                  Some(available_gas), fn_ptr, signature,
                  Some(native_args), Some(result), Some(result))

\* The call `super::invoke_dynamic(&self.registry, self.find_function_ptr(..),
\* self.extract_signature(..), args, available_gas, handler)` the three entry
\* points end with: the arguments are evaluated left to right, so the entry
\* pointer is resolved, then the signature, and then the native entry point
\* is invoked once.
call_native(self, function_id, native_args, available_gas, syscall_handler) ==
  LET fn_ptr == find_function_ptr(self, function_id)
      signature == extract_signature(self, function_id)
      result == native_invoke_dynamic(self.registry, Unwrap(fn_ptr),
                  Unwrap(signature), native_args, available_gas,
                  syscall_handler)
  IN IF fn_ptr = None
     THEN Outcome("panic", "", <<"gas", "ptr">>,
                  Some(available_gas), None, None, None, None, None)
     ELSE IF signature = None
     THEN Outcome("panic", "", <<"gas", "ptr", "sig">>,
                  Some(available_gas), fn_ptr, None, None, None, None)
     ELSE Outcome("ok", "", <<"gas", "ptr", "sig", "native">>,
                  Some(available_gas), fn_ptr, signature,
                  Some(native_args), Some(result), Some(result))

\* invoke_dynamic with the explicit gas left out of the gas resolution.
invoke_dynamic_metadata_gas(self, function_id, args, gas) ==
  LET available_gas ==
        get_initial_available_gas(self.gas_metadata, function_id, None)
  IN IF ~available_gas.ok
     THEN InsufficientGas
     ELSE call_native(self, function_id, args, available_gas.value, None)

\* invoke_dynamic with a failure of the program turned into an error.
invoke_dynamic_failure_as_error(self, function_id, args, gas) ==
  LET available_gas ==
        get_initial_available_gas(self.gas_metadata, function_id, gas)
      call == call_native(self, function_id, args, available_gas.value, None)
  IN IF ~available_gas.ok
     THEN InsufficientGas
     ELSE IF call.outcome = "ok" /\ Unwrap(call.exec).failure
     THEN [call EXCEPT !.outcome = "err", !.error = "ProgramFailed",
                       !.value = None]
     ELSE call

\* AotNativeExecutor::invoke_dynamic: the gas is resolved first and its
\* error returned early; the native call has no syscall handler and its
\* result is returned in Ok.
invoke_dynamic(self, function_id, args, gas) ==
  LET available_gas ==
        get_initial_available_gas(self.gas_metadata, function_id, gas)
  IN IF ~available_gas.ok
     THEN InsufficientGas
     ELSE call_native(self, function_id, args, available_gas.value, None)

\* invoke_dynamic_with_syscall_handler with unresolved gas defaulting to zero.
invoke_dynamic_with_syscall_handler_default_gas(self, function_id, args, gas, syscall_handler) ==
  LET available_gas ==
        get_initial_available_gas(self.gas_metadata, function_id, gas)
  IN call_native(self, function_id, args,
                 IF available_gas.ok THEN available_gas.value ELSE 0,
                 Some(syscall_handler))

\* AotNativeExecutor::invoke_dynamic_with_syscall_handler: the same with the
\* caller's handler.
invoke_dynamic_with_syscall_handler(self, function_id, args, gas, syscall_handler) ==
  LET available_gas ==
        get_initial_available_gas(self.gas_metadata, function_id, gas)
  IN IF ~available_gas.ok
     THEN InsufficientGas
     ELSE call_native(self, function_id, args, available_gas.value,
                      Some(syscall_handler))

\* invoke_contract_dynamic with the calldata collected back to front.
invoke_contract_dynamic_reversed(self, function_id, args, gas, syscall_handler) ==
  LET available_gas ==
        get_initial_available_gas(self.gas_metadata, function_id, gas)
      calldata ==
        <<Struct(<<Array([i \in 1..Len(args)
                            |-> Felt252(args[Len(args) + 1 - i])])>>, None)>>
      call == call_native(self, function_id, calldata, available_gas.value,
                          Some(syscall_handler))
      reshaped == from_execution_result(Unwrap(call.exec))
  IN IF ~available_gas.ok
     THEN InsufficientGas
     ELSE IF call.outcome /= "ok"
     THEN call
     ELSE [call EXCEPT
             !.outcome = IF reshaped.ok THEN "ok" ELSE "err",
             !.error = IF reshaped.ok THEN "" ELSE "UnexpectedValue",
             !.value = IF reshaped.ok THEN Some(reshaped.value) ELSE None]

\* AotNativeExecutor::invoke_contract_dynamic: the felts are wrapped into one
\* struct holding one array, and what from_execution_result makes of the
\* execution result is returned.
invoke_contract_dynamic(self, function_id, args, gas, syscall_handler) ==
  LET available_gas ==
        get_initial_available_gas(self.gas_metadata, function_id, gas)
      calldata ==
        <<Struct(<<Array([i \in 1..Len(args) |-> Felt252(args[i])])>>, None)>>
      call == call_native(self, function_id, calldata, available_gas.value,
                          Some(syscall_handler))
      reshaped == from_execution_result(Unwrap(call.exec))
  IN IF ~available_gas.ok
     THEN InsufficientGas
     ELSE IF call.outcome /= "ok"
     THEN call
     ELSE [call EXCEPT
             !.outcome = IF reshaped.ok THEN "ok" ELSE "err",
             !.error = IF reshaped.ok THEN "" ELSE "UnexpectedValue",
             !.value = IF reshaped.ok THEN Some(reshaped.value) ELSE None]

\* AotNativeExecutor::from_native_module: the module is compiled, linked and
\* loaded, and the gas metadata removed from the module's metadata store;
\* None when `metadata.remove().unwrap()` panics.
from_native_module(module) ==
  IF module.metadata = None
  THEN None
  ELSE Some(new(LibraryOf(module.module), module.registry,
                Unwrap(module.metadata)))

\* The NativeModules of the programs: the registry holds the functions of
\* the module, the metadata store holds gas metadata or does not.
NativeModules ==
  { [module |-> fns, registry |-> RegistryOf(fns), metadata |-> md] :
      fns \in FunctionSets,
      md \in {None} \cup {Some(GasMetadataOf(g)) : g \in FunctionSets} }

Alive == executor.state = "alive"

\* The caller constructs the executor from a library, a registry and gas
\* metadata of its choice.
New ==
  /\ executor.state = "none"
  /\ \E l \in FunctionSets, r \in FunctionSets, g \in FunctionSets :
       executor' = new(LibraryOf(l), RegistryOf(r), GasMetadataOf(g))
  /\ UNCHANGED <<last, held>>
  /\ UNCHANGED loweringVars

\* The caller constructs the executor from a NativeModule.
FromNativeModule ==
  /\ executor.state = "none"
  /\ \E module \in NativeModules :
       LET made == from_native_module(module)
       IN /\ executor' = IF made = None THEN executor ELSE Unwrap(made)
          /\ last' = Call("from_native_module", 0, <<>>, None, None,
                       Outcome(IF made = None THEN "panic" ELSE "ok", "", <<>>,
                               None, None, None, None, None, None))
  /\ UNCHANGED held
  /\ UNCHANGED loweringVars

\* InvokeDynamic with the function's gas metadata used up by the call.
InvokeDynamicConsuming ==
  /\ Alive
  /\ \E function_id \in FunctionIds, args \in JitArgs, gas \in GasOptions :
       /\ last' = Call("invoke_dynamic", function_id, args, gas, None,
                       invoke_dynamic(executor, function_id, args, gas))
       /\ executor' =
            [executor EXCEPT !.gas_metadata =
               [f \in DOMAIN executor.gas_metadata \ {function_id}
                  |-> executor.gas_metadata[f]]]
  /\ UNCHANGED held
  /\ UNCHANGED loweringVars

InvokeDynamic ==
  /\ Alive
  /\ \E function_id \in FunctionIds, args \in JitArgs, gas \in GasOptions :
       last' = Call("invoke_dynamic", function_id, args, gas, None,
                    invoke_dynamic(executor, function_id, args, gas))
  /\ UNCHANGED <<executor, held>>
  /\ UNCHANGED loweringVars

InvokeDynamicWithSyscallHandler ==
  /\ Alive
  /\ \E function_id \in FunctionIds, args \in JitArgs, gas \in GasOptions,
        syscall_handler \in Handlers :
       last' = Call("invoke_dynamic_with_syscall_handler", function_id, args,
                    gas, Some(syscall_handler),
                    invoke_dynamic_with_syscall_handler(
                      executor, function_id, args, gas, syscall_handler))
  /\ UNCHANGED <<executor, held>>
  /\ UNCHANGED loweringVars

InvokeContractDynamic ==
  /\ Alive
  /\ \E function_id \in FunctionIds, args \in FeltSeqs, gas \in GasOptions,
        syscall_handler \in Handlers :
       last' = Call("invoke_contract_dynamic", function_id, args, gas,
                    Some(syscall_handler),
                    invoke_contract_dynamic(
                      executor, function_id, args, gas, syscall_handler))
  /\ UNCHANGED <<executor, held>>
  /\ UNCHANGED loweringVars

\* find_function_ptr is public: the raw pointer is returned to the caller,
\* who keeps it.
FindFunctionPtr ==
  /\ Alive
  /\ \E function_id \in FunctionIds :
       LET fn_ptr == find_function_ptr(executor, function_id)
       IN /\ last' = Call("find_function_ptr", function_id, <<>>, None, None,
                       Outcome(IF fn_ptr = None THEN "panic" ELSE "ok", "",
                               <<"ptr">>, None, fn_ptr, None, None, None,
                               fn_ptr))
          /\ held' = held \cup fn_ptr
  /\ UNCHANGED executor
  /\ UNCHANGED loweringVars

\* The executor is dropped: the library is unloaded.  What the caller holds
\* is the caller's, and stays.
Drop ==
  /\ Alive
  /\ executor' = NoExecutor("dropped")
  /\ UNCHANGED <<last, held>>
  /\ UNCHANGED loweringVars

\* ---------------------------------------------------------------- lowering

\* The operations already in the entry block.
PriorOps ==
  { [name |-> n, successor |-> None, operands |-> <<>>] :
      n \in {"arith.constant", "llvm.call"} }

\* The successor blocks a libfunc may declare, in branch order.
BranchLists == {<<1>>, <<2>>, <<1, 2>>, <<2, 1>>}

\* What earlier lowerings may have left in the MetadataStorage.
MetadataKeys == {"GasMetadata", "RuntimeBindingsMeta"}

\* LibfuncHelper::br: a branch to the declared successor `branch`
\* (0-based), carrying `results`.
br(h, branch, results) ==
  [name |-> "cf.br", successor |-> Some(h.branches[branch + 1]),
   operands |-> results]

\* build with the branch appended twice.
build_twice(block, h, storage) ==
  [entry |-> Append(Append(block, br(h, 0, <<>>)), br(h, 0, <<>>)),
   metadata |-> storage, result |-> "Ok"]

\* unconditional_jump::build: the block, the metadata storage and the
\* result after the call.
build(block, h, storage) ==
  [entry |-> Append(block, br(h, 0, <<>>)), metadata |-> storage,
   result |-> "Ok"]

Build ==
  /\ lowered.result = "none"
  /\ LET b == build(entry, helper, metadata)
     IN /\ entry' = b.entry
        /\ metadata' = b.metadata
        /\ lowered' = [result |-> b.result, entry |-> entry,
                       metadata |-> metadata]
  /\ UNCHANGED helper
  /\ UNCHANGED executorVars

\* ---------------------------------------------------------- specifications

NotLowering ==
  /\ entry = <<>>
  /\ helper = [branches |-> <<1>>]
  /\ metadata = {}
  /\ lowered = [result |-> "none", entry |-> <<>>, metadata |-> {}]

Init ==
  /\ executor = NoExecutor("none")
  /\ last = Call("none", 0, <<>>, None, None, NoOutcome)
  /\ held = {}
  /\ NotLowering

Next ==
  \/ New
  \/ FromNativeModule
  \/ InvokeDynamic
  \/ InvokeDynamicWithSyscallHandler
  \/ InvokeContractDynamic
  \/ FindFunctionPtr
  \/ Drop

Spec == Init /\ [][Next]_vars

\* The lowering of one jump, from any block, helper and metadata storage.
InitLower ==
  /\ executor = NoExecutor("none")
  /\ last = Call("none", 0, <<>>, None, None, NoOutcome)
  /\ held = {}
  /\ entry \in UNION {[1..n -> PriorOps] : n \in 0..MaxOps}
  /\ helper \in {[branches |-> b] : b \in BranchLists}
  /\ metadata \in SUBSET MetadataKeys
  /\ lowered = [result |-> "none", entry |-> <<>>, metadata |-> {}]

NextLower == Build

SpecLower == InitLower /\ [][NextLower]_vars

\* ------------------------------------------------------------------ claims

InvokeOps ==
  {"invoke_dynamic", "invoke_dynamic_with_syscall_handler",
   "invoke_contract_dynamic"}

\* How often the native entry point was invoked during the latest call.
Invocations == Cardinality({i \in DOMAIN last.res.steps : last.res.steps[i] = "native"})

\* The latest call passed no explicit gas for a function the metadata has
\* no entry for.
GasUnresolvable ==
  /\ Alive
  /\ last.gas = None
  /\ last.function_id \notin DOMAIN executor.gas_metadata

\* The library exports the prefixed symbol of the latest call's function.
SymbolCompiled ==
  /\ Alive
  /\ (Prefix \o generate_function_name(last.function_id))
       \in DOMAIN executor.library

\* The registry holds the signature of the latest call's function.
SignatureRegistered ==
  /\ Alive
  /\ last.function_id \in DOMAIN executor.registry

\* C1: when the gas of an invoke call cannot be resolved, the call returns
\* InsufficientGas and the native entry point was not invoked during it.
C1_GasResolvedBeforeNative ==
  (last.op \in InvokeOps /\ GasUnresolvable)
    => /\ last.res.outcome = "err"
       /\ last.res.error = "InsufficientGasError"
       /\ Invocations = 0
       /\ last.res.exec = None

\* An entry point was called with unresolvable gas for a function whose
\* symbol and signature both exist, so that only the gas stopped the call.
C1_Witness ==
  /\ last.op = "invoke_dynamic_with_syscall_handler"
  /\ GasUnresolvable /\ SymbolCompiled /\ SignatureRegistered
  /\ last.res.outcome = "err"

\* C2: with explicit gas Some(g), the gas established for the call is g,
\* whatever the metadata holds, and the call is no InsufficientGas error.
C2_ExplicitGasWins ==
  (last.op \in InvokeOps /\ last.gas /= None)
    => /\ last.res.available_gas = last.gas
       /\ last.res.error /= "InsufficientGasError"

\* Explicit gas was passed for a function whose metadata entry differs, and
\* the native entry point ran.
C2_Witness ==
  /\ Alive
  /\ last.op = "invoke_dynamic"
  /\ last.gas /= None
  /\ last.function_id \in DOMAIN executor.gas_metadata
  /\ Some(executor.gas_metadata[last.function_id]) /= last.gas
  /\ last.res.outcome = "ok"

\* The one composite argument holding the felts in order.
RECURSIVE FeltValues(_)
FeltValues(felts) ==
  IF felts = <<>> THEN <<>>
  ELSE <<Felt252(Head(felts))>> \o FeltValues(Tail(felts))

\* C3: invoke_contract_dynamic on felts does what
\* invoke_dynamic_with_syscall_handler does on the one struct holding the
\* array of those felts: same gas, entry pointer, signature, arguments at
\* the native boundary and execution result.
C3_ContractWrapsCalldata ==
  (Alive /\ last.op = "invoke_contract_dynamic")
    => LET direct == invoke_dynamic_with_syscall_handler(
                       executor, last.function_id,
                       <<Struct(<<Array(FeltValues(last.args))>>, None)>>,
                       last.gas, Unwrap(last.syscall_handler))
       IN /\ last.res.available_gas = direct.available_gas
          /\ last.res.fn_ptr = direct.fn_ptr
          /\ last.res.signature = direct.signature
          /\ last.res.native_args = direct.native_args
          /\ last.res.exec = direct.exec
          /\ last.res.steps = direct.steps

\* A contract call with two different felts reached the native entry point.
C3_Witness ==
  /\ Alive
  /\ last.op = "invoke_contract_dynamic"
  /\ Len(last.args) = 2 /\ last.args[1] /= last.args[2]
  /\ last.res.outcome = "ok"

\* C4: an invoke call with explicit gas for a function with no compiled
\* symbol returns a symbol-resolution error without running native code.
C4_MissingSymbolIsReturnedError ==
  (Alive /\ last.op \in InvokeOps /\ last.gas /= None /\ ~SymbolCompiled)
    => /\ last.res.outcome = "err"
       /\ last.res.error /= "InsufficientGasError"
       /\ Invocations = 0

\* C5: once the executor is dropped, the caller holds no entry pointer into
\* its library.
C5_NoPointerOutlivesExecutor ==
  executor.state = "dropped" => held = {}

\* C6: lowering the jump with one declared successor succeeds, appends one
\* branch to that successor carrying nothing and leaves the rest of the
\* block and the metadata storage as they were.
C6_JumpAppendsOneBranch ==
  (lowered.result /= "none" /\ Len(helper.branches) = 1)
    => /\ lowered.result = "Ok"
       /\ Len(entry) = Len(lowered.entry) + 1
       /\ SubSeq(entry, 1, Len(lowered.entry)) = lowered.entry
       /\ entry[Len(entry)] =
            [name |-> "cf.br", successor |-> Some(helper.branches[1]),
             operands |-> <<>>]
       /\ metadata = lowered.metadata

\* The jump was lowered into a block with operations, with metadata stored.
C6_Witness ==
  /\ lowered.result = "Ok"
  /\ Len(helper.branches) = 1
  /\ Len(lowered.entry) > 0
  /\ lowered.metadata /= {}

\* C7: find_function_ptr returns the non-null address of the symbol named
\* by the prefix followed by the mangled name when the library exports it,
\* and fails, on every call, when it does not.
C7_FindResolvesPrefixedSymbol ==
  (Alive /\ last.op = "find_function_ptr")
    => LET name == Prefix \o generate_function_name(last.function_id)
       IN IF name \in DOMAIN executor.library
          THEN /\ last.res.outcome = "ok"
               /\ last.res.fn_ptr = Some(executor.library[name])
               /\ executor.library[name] /= 0
          ELSE /\ last.res.outcome = "panic"
               /\ last.res.fn_ptr = None

\* A pointer was found in a library exporting several symbols.
C7_Witness ==
  /\ Alive
  /\ last.op = "find_function_ptr"
  /\ last.res.outcome = "ok"
  /\ Cardinality(DOMAIN executor.library) > 2

\* C8: an invocation leaves the executor as it was, and an invocation that
\* repeats the one before it, on the same executor with the same inputs,
\* resolves and returns the same.
C8_InvocationsAreDeterministic ==
  [][(Alive /\ last'.op \in InvokeOps /\ executor'.state = "alive")
       => /\ executor' = executor
          /\ (/\ last.op = last'.op
              /\ last.function_id = last'.function_id
              /\ last.args = last'.args
              /\ last.gas = last'.gas
              /\ last.syscall_handler = last'.syscall_handler)
               => last'.res = last.res]_vars

\* An invocation ran native code on an executor that had resolved pointers
\* before.
C8_Witness ==
  /\ Alive
  /\ last.op \in InvokeOps
  /\ last.res.outcome = "ok"
  /\ held /= {}

\* The value returned reports the program's failure as its discriminant.
FailureReportedInside ==
  /\ last.res.outcome = "ok"
  /\ last.res.exec /= None
  /\ last.res.value /= None
  /\ IF last.op = "invoke_contract_dynamic"
     THEN Unwrap(last.res.value).failure_flag = Unwrap(last.res.exec).failure
     ELSE last.res.value = last.res.exec

C10_StepsInOrder ==
  last.op \in InvokeOps
    => /\ \E n \in 1..4 :
            last.res.steps = SubSeq(<<"gas", "ptr", "sig", "native">>, 1, n)
       /\ GasUnresolvable
            => /\ last.res.steps = <<"gas">>
               /\ last.res.error = "InsufficientGasError"
       /\ Invocations = IF last.res.outcome = "ok" THEN 1 ELSE 0

\* A call with unresolvable gas for a function with neither symbol nor
\* signature returned InsufficientGas.
C10_Witness ==
  /\ last.op \in InvokeOps
  /\ GasUnresolvable /\ ~SymbolCompiled /\ ~SignatureRegistered
  /\ last.res.outcome = "err"

====
